---- MODULE Spec2Model ----
(***************************************************************************)
(* Audio file storage and archival pipeline (app/utils.py,                *)
(* app/api/v1/audio.py, app/models/audio.py, app/database.py).            *)
(*                                                                         *)
(* Text is a sequence of one-character strings, so that splitting,        *)
(* trimming and case folding are computed character by character.         *)
(***************************************************************************)
EXTENDS Integers, Sequences, FiniteSets, TLC

VARIABLES
    records,   \* table audio_files: the committed rows, in insertion order
    blobs,     \* upload_dir: stored_filename -> bytes on disk
    temp,      \* temp_dir: zip path -> sequence of archive entries
    tmpmeta,   \* temporary metadata .json files left by download_user_files
    up,        \* the upload requests in flight: worker -> locals of upload_audio
    sched,     \* zip path -> stage of the response that carries it
    nUp,       \* number of upload calls made
    nExp,      \* number of download calls made
    last,      \* what the call that completed last returned
    given,     \* stored name -> what the client gave in an upload answered 200
    tin,       \* input of the function under test (pure-function specifications)
    tout       \* its result

vars == <<records, blobs, temp, tmpmeta, up, sched, nUp, nExp, last, given, tin, tout>>

----------------------------------------------------------------------------
(* Bounds *)

MaxTextLen == 4

MaxFilterLen == 2

MaxListLen == 2

MaxUploads == 2

MaxExports == 1

MaxReleases == 2

----------------------------------------------------------------------------
(* Text *)

Chars == {"a", "A", "b", " ", ",", "\t"}

FilterChars == {"a", "A", "b", " "}

RECURSIVE TextsUpTo(_, _)
TextsUpTo(alphabet, n) ==
    IF n = 0 THEN {<<>>}
    ELSE LET shorter == TextsUpTo(alphabet, n - 1)
         IN  shorter \cup {Append(s, c) : s \in {t \in shorter : Len(t) = n - 1}, c \in alphabet}

\* "Rock, rock , Pop"
RockText == <<"R","o","c","k",","," ","r","o","c","k"," ",","," ","P","o","p">>

\* "rocker"
RockerText == <<"r","o","c","k","e","r">>

\* ord(c) < 32
IsControl(c) == c \in {"\t", "\n"}

\* the characters str.strip() removes
IsSpace(c) == c \in {" ", "\t", "\n"}

LowerChar(c) ==
    CASE c = "A" -> "a"
      [] c = "B" -> "b"
      [] c = "R" -> "r"
      [] c = "O" -> "o"
      [] c = "C" -> "c"
      [] c = "K" -> "k"
      [] c = "P" -> "p"
      [] OTHER -> c

\* str.lower()
Lower(s) == [i \in 1..Len(s) |-> LowerChar(s[i])]

RECURSIVE LStrip(_)
LStrip(s) == IF s # <<>> /\ IsSpace(Head(s)) THEN LStrip(Tail(s)) ELSE s

RECURSIVE RStrip(_)
RStrip(s) == IF s # <<>> /\ IsSpace(s[Len(s)]) THEN RStrip(SubSeq(s, 1, Len(s) - 1)) ELSE s

\* str.strip()
Strip(s) == RStrip(LStrip(s))

\* str.split(sep): the pieces between separators, empty pieces kept
Split(s, sep) ==
    LET at   == SelectSeq([i \in 1..Len(s) |-> i], LAMBDA i : s[i] = sep)
        cuts == <<0>> \o at \o <<Len(s) + 1>>
    IN  [k \in 1..(Len(cuts) - 1) |-> SubSeq(s, cuts[k] + 1, cuts[k + 1] - 1)]

\* sep.join(parts)
RECURSIVE Join(_, _)
Join(parts, sep) ==
    IF parts = <<>> THEN <<>>
    ELSE IF Len(parts) = 1 THEN parts[1]
    ELSE parts[1] \o <<sep>> \o Join(Tail(parts), sep)

Range(s) == {s[i] : i \in 1..Len(s)}

InputLimit == 255

\* clean_input: drop control characters, cut to 255 characters, strip
clean_input(text) ==
    IF text = <<>> THEN <<>>
    ELSE LET printable == SelectSeq(text, LAMBDA c : ~IsControl(c))
             cut       == SubSeq(printable, 1, IF Len(printable) < InputLimit THEN Len(printable) ELSE InputLimit)
         IN  Strip(cut)

\* UploadRequest.validate_strings
validate_strings(v) == Strip(v)

\* models.py UploadRequest.validate_tags (the module shadowed by the package
\* app/models): the membership test uses the tag before lowercasing
RECURSIVE ValidateTagsFrom(_, _, _)
ValidateTagsFrom(v, cleaned, seen) ==
    IF v = <<>> THEN cleaned
    ELSE LET tag == Head(v)
         IN  IF Strip(tag) # <<>> /\ Strip(tag) \notin seen
             THEN ValidateTagsFrom(Tail(v), Append(cleaned, Lower(Strip(tag))),
                                   seen \cup {Lower(Strip(tag))})
             ELSE ValidateTagsFrom(Tail(v), cleaned, seen)

validate_tags(v) == ValidateTagsFrom(v, <<>>, {})

\* the pieces of the form field handed to validate_tags
get_parsed_tags_validated(tags) ==
    IF tags = <<>> THEN <<>> ELSE validate_tags(Split(tags, ","))

\* UploadRequest.get_parsed_tags, as the source computes it: no case folding,
\* no removal of duplicates
get_parsed_tags(tags) ==
    IF tags = <<>> THEN <<>>
    ELSE LET pieces   == Split(tags, ",")
             stripped == [i \in 1..Len(pieces) |-> Strip(pieces[i])]
         IN  SelectSeq(stripped, LAMBDA t : t # <<>>)

\* the tags upload_audio stores for a tags form field:
\* UploadRequest(tags=clean_input(tags)).get_parsed_tags()
UploadTags(text) == get_parsed_tags(validate_strings(clean_input(text)))

----------------------------------------------------------------------------
(* Configuration and inputs *)

\* FileConfig.max_file_size, configured small so that a stream of a few
\* chunks crosses it
max_file_size == 10000

chunk_size == 8192

supported_audio_types == {"audio/mpeg", "audio/mp3"}

None == <<"<None>">>

Owners == {"alice", "bob"}

\* the slots of the requests being served; a new request takes the lowest free one
Workers == {1, 2}

\* (UploadFile.filename, UploadFile.content_type) of the uploads of Spec
FileInputs == {<<"", "audio/mpeg">>, <<"song.mp3", "audio/mpeg">>, <<"memo.txt", "text/plain">>}

\* UploadFile.size; 0 stands for an absent size
DeclaredSizes == {0, max_file_size + 1}

StreamLens == {1000, 2 * max_file_size}

\* the stream lengths of SpecWriter: empty, less than a chunk, exactly the
\* limit, one byte over it, and over it with chunks left unread
WriterLens == {0, 1000, chunk_size, max_file_size, max_file_size + 1, 3 * chunk_size}

TagTexts == {RockText}

\* "live"
LiveText == <<"l","i","v","e">>

\* a tags field with a control character between two letters
TabText == <<"a", "\t", "b">>

\* the additional_info form field of the uploads: left empty
InfoTexts == {<<>>}

\* pathlib.Path(name).suffix
Suffix(name) ==
    CASE name = "song.mp3" -> ".mp3"
      [] name = "memo.txt" -> ".txt"
      [] name = "song.wav" -> ".wav"
      [] OTHER -> ""

\* mimetypes.guess_type(name)[0]
guess_type(name) ==
    CASE Suffix(name) = ".mp3" -> "audio/mpeg"
      [] Suffix(name) = ".txt" -> "text/plain"
      [] Suffix(name) = ".wav" -> "audio/x-wav"
      [] OTHER -> "None"

Min(a, b) == IF a < b THEN a ELSE b

Without(f, k) == [x \in DOMAIN f \ {k} |-> f[x]]

With(f, k, v) == [x \in DOMAIN f \cup {k} |-> IF x = k THEN v ELSE f[x]]

----------------------------------------------------------------------------
(* File Validator *)

\* a validator that asks the filename first and the declared type second
validate_audio_file_inferred_first(filename, size, content_type) ==
    IF filename = "" THEN <<FALSE, "No file provided">>
    ELSE IF size # 0 /\ size > max_file_size THEN <<FALSE, "File too large">>
    ELSE IF guess_type(filename) \in supported_audio_types THEN <<TRUE, guess_type(filename)>>
    ELSE IF content_type \in supported_audio_types THEN <<TRUE, content_type>>
    ELSE <<FALSE, "This is an unsupported file type">>

validate_audio_file(filename, size, content_type) ==
    IF filename = "" THEN <<FALSE, "No file provided">>
    ELSE IF size # 0 /\ size > max_file_size THEN <<FALSE, "File too large">>
    ELSE IF content_type \notin supported_audio_types
         THEN IF guess_type(filename) \notin supported_audio_types
              THEN <<FALSE, "This is an unsupported file type">>
              ELSE <<TRUE, guess_type(filename)>>
         ELSE <<TRUE, content_type>>

\* uuid.uuid4(): a value no other call draws, named by the call that draws it
uuid4(kind, call) == <<kind, call>>

\* a stored name made of the original suffix and one fixed identifier
generate_fixed_filename(call, original_filename) == <<uuid4("blob", 1), Suffix(original_filename)>>

\* generate_unique_filename: a fresh uuid4 followed by the original suffix
generate_unique_filename(call, original_filename) == <<uuid4("blob", call), Suffix(original_filename)>>

----------------------------------------------------------------------------
(* Streaming Persistence Writer: save_uploaded_file, one await per step *)

Idle == [pc |-> "idle"]

\* the destination of a call that never opened one
NoBlob == <<uuid4("blob", 0), "">>

\* UploadFile.read(chunk_size) at offset pos of a stream of len bytes
ReadChunk(len, pos) == Min(chunk_size, len - pos)

\* the size counted by the chunk size asked for, not by the bytes returned
CountChunkRequested(file_size, chunk) == file_size + chunk_size

\* file_size += len(chunk)
CountChunk(file_size, chunk) == file_size + chunk

\* a limit test that lets one more chunk through
ExceedsLimitByChunk(file_size) == file_size > max_file_size + chunk_size

\* a limit test that rejects a stream of exactly max_file_size bytes
ExceedsLimitInclusive(file_size) == file_size >= max_file_size

\* if file_size > config.max_file_size, tested after each write
ExceedsLimit(file_size) == file_size > max_file_size

\* what os.unlink can do to a file that exists: delete it, fail with the file
\* still there, or find that the file is gone since the exists() test
UnlinkFaults == {"none", "PermissionError", "FileNotFoundError"}

\* an except clause that names FileNotFoundError alone
IsFileNotFoundError(e) == e = "FileNotFoundError"

\* except OSError: both exceptions of os.unlink are OSError subclasses
IsOSError(e) == e \in {"PermissionError", "FileNotFoundError"}

\* try: if exists(file_path): os.unlink(file_path) / except OSError: log, on
\* the directory fs: the directory it leaves and whether an exception leaves
\* the block
unlink_if_exists(fs, file_path, fault) ==
    LET exists == file_path \in DOMAIN fs
        thrown == IF exists THEN fault ELSE "none"
    IN  [fs     |-> IF exists /\ fault # "PermissionError" THEN Without(fs, file_path) ELSE fs,
         raised |-> thrown # "none" /\ ~IsOSError(thrown)]

\* the except-branch of save_uploaded_file: unlink the destination if it
\* exists; an OSError of the unlink is logged and the destination stays
CleanupPartial(fs, path, fault) == unlink_if_exists(fs, path, fault).fs

\* the size-limit branch: os.unlink while the handle is still open; an OSError
\* there is logged and swallowed and the destination stays. The HTTPException
\* it raises then leaves the async with, which closes the destination
AbortTooLarge(fs, path, unlinked) == IF unlinked THEN Without(fs, path) ELSE fs

\* upload_audio's handler around save_uploaded_file: every exception, the
\* HTTPException(413) of the size limit included, becomes a 500
SaveFailedStatus(raised) == 500

\* datetime.utcnow(): the time of the call that reads the clock
utcnow(kind, call) == <<"utc", kind, call>>

\* the additional_info column upload_audio stores for the form field:
\* {"info": <stripped text>} when the text is not blank, NULL otherwise
UploadInfo(text) ==
    LET info == validate_strings(clean_input(text))
    IN  IF Strip(info) # <<>> THEN <<"info", Strip(info)>> ELSE None

\* the two handlers that serve POST /upload: upload_audio of the api/v1 router
\* and upload_audio of main.py, registered on the FastAPI app object
Routes == {"v1", "main"}

\* the tags the handler of a route stores for a tags form field: main.py
\* splits and strips the raw field, without clean_input
RouteTags(route, text) ==
    IF route = "main" THEN get_parsed_tags(text) ELSE UploadTags(text)

\* the additional_info column the handler of a route stores: main.py strips
\* the raw field, without clean_input
RouteInfo(route, text) ==
    IF route = "main"
    THEN IF Strip(text) # <<>> THEN <<"info", Strip(text)>> ELSE None
    ELSE UploadInfo(text)

\* AudioFile(...) with set_tags and set_additional_info
AudioRecord(u, file_size) ==
    [id |-> u.file_id, user_id |-> u.owner, original_filename |-> u.name,
     stored_filename |-> u.stored, file_size |-> file_size, mime_type |-> u.mime,
     tags |-> RouteTags(u.route, u.tags), additional_info |-> RouteInfo(u.route, u.info),
     upload_timestamp |-> utcnow("upload", u.file_id[2])]

\* what an upload call answered: status and detail of the response, and the
\* call's destination, stream length and bytes read
UploadOutcome(status, detail, cause, stored, declared, len, read) ==
    [op |-> "upload", status |-> status, detail |-> detail, cause |-> cause,
     stored |-> stored, declared |-> declared, len |-> len, read |-> read]

\* a handler that answers 400 and goes on to save the file all the same
SaveFollowsAlways(is_valid) == TRUE

\* if not is_valid: raise HTTPException(400): generate_unique_filename and
\* save_uploaded_file are reached by the uploads the validator accepted
SaveFollows(is_valid) == is_valid

\* how the body of `async with aiofiles.open(...)` was left when the writer
\* waits in the close of the destination: by the read that returned no bytes,
\* by the HTTPException of the size limit, by an exception of file.read or
\* f.write, or by the cancellation of the task
Exits == {"eof", "limit", "io", "cancel"}

\* upload_audio up to the first await of save_uploaded_file: validation and
\* naming. A writer in flight waits in aiofiles.open when it is opening, in
\* file.seek or file.read when it is saving and holds no chunk, in f.write
\* when it holds one, and in the close of the destination once the body of
\* the async with is left
UploadBegin(w, route, owner, name, ctype, declared, text, info, len) ==
    /\ up[w].pc = "idle"
    /\ \A v \in Workers : v < w => up[v].pc # "idle"
    /\ nUp < MaxUploads
    /\ nUp' = nUp + 1
    /\ LET v      == validate_audio_file(name, declared, ctype)
           stored == generate_unique_filename(nUp + 1, name)
       IN  /\ last' = IF v[1] THEN last
                      ELSE UploadOutcome(400, v[2], "validation", NoBlob, declared, len, 0)
           /\ up' = IF SaveFollows(v[1])
                    THEN [up EXCEPT ![w] =
                             [pc |-> "opening", route |-> route, owner |-> owner,
                              name |-> name, mime |-> v[2],
                              tags |-> text, info |-> info, declared |-> declared,
                              len |-> len, pos |-> 0, chunk |-> 0,
                              file_size |-> 0, exit |-> "none",
                              file_id |-> uuid4("file", nUp + 1), stored |-> stored]]
                    ELSE up
    /\ UNCHANGED <<records, blobs, temp, tmpmeta, sched, nExp, given, tin, tout>>

\* await aiofiles.open(file_path, 'wb') returns: the empty destination exists.
\* The awaits that follow, file.seek(0) and the first file.read, are left in
\* the same ways with the same destination, and are one position
UploadOpen(w) ==
    /\ up[w].pc = "opening"
    /\ blobs' = With(blobs, up[w].stored, 0)
    /\ up' = [up EXCEPT ![w].pc = "saving"]
    /\ UNCHANGED <<records, temp, tmpmeta, sched, nUp, nExp, last, given, tin, tout>>

\* the first half of a pass of the while loop: await file.read(chunk_size)
\* returns a chunk that is not empty, and file_size += len(chunk)
UploadRead(w) ==
    /\ up[w].pc = "saving"
    /\ up[w].chunk = 0
    /\ up[w].pos < up[w].len
    /\ LET u     == up[w]
           chunk == ReadChunk(u.len, u.pos)
       IN  up' = [up EXCEPT ![w].pos = u.pos + chunk, ![w].chunk = chunk,
                            ![w].file_size = CountChunk(u.file_size, chunk)]
    /\ UNCHANGED <<records, blobs, temp, tmpmeta, sched, nUp, nExp, last, given, tin, tout>>

\* await file.read(chunk_size) returns no bytes: the loop ends and the async
\* with closes the destination
UploadEnd(w) ==
    /\ up[w].pc = "saving"
    /\ up[w].chunk = 0
    /\ up[w].pos = up[w].len
    /\ up' = [up EXCEPT ![w].pc = "closing", ![w].exit = "eof"]
    /\ UNCHANGED <<records, blobs, temp, tmpmeta, sched, nUp, nExp, last, given, tin, tout>>

\* the second half of the pass: await f.write(chunk), then the comparison with
\* the limit; over the limit the branch unlinks the destination and raises,
\* and the writer waits in the close of the destination
UploadWrite(w, unlinked) ==
    /\ up[w].pc = "saving"
    /\ up[w].chunk > 0
    /\ LET u       == up[w]
           written == With(blobs, u.stored, blobs[u.stored] + u.chunk)
       IN  IF ExceedsLimit(u.file_size)
           THEN /\ blobs' = AbortTooLarge(written, u.stored, unlinked)
                /\ up' = [up EXCEPT ![w].pc = "closing", ![w].exit = "limit", ![w].chunk = 0]
           ELSE /\ ~unlinked
                /\ blobs' = written
                /\ up' = [up EXCEPT ![w].chunk = 0]
    /\ UNCHANGED <<records, last, temp, tmpmeta, sched, nUp, nExp, given, tin, tout>>

\* the close of the destination returns after the body was left by an
\* exception: the HTTPException of the limit or the error of the read or write
\* reaches the except-branch, which unlinks the destination if it can, and
\* upload_audio answers 500; a CancelledError passes both except-branches
UploadClose(w, fault) ==
    /\ up[w].pc = "closing"
    /\ up[w].exit \in {"limit", "io", "cancel"}
    /\ LET u == up[w]
       IN  IF u.exit = "cancel"
           THEN /\ fault = "none"
                /\ UNCHANGED blobs
                /\ last' = UploadOutcome(0, "", "cancel", u.stored, u.declared, u.len, u.pos)
           ELSE /\ blobs' = CleanupPartial(blobs, u.stored, fault)
                /\ last' = UploadOutcome(SaveFailedStatus(IF u.exit = "limit" THEN 413 ELSE 500),
                                         "Failed to save file", u.exit,
                                         u.stored, u.declared, u.len, u.pos)
    /\ up' = [up EXCEPT ![w] = Idle]
    /\ UNCHANGED <<records, temp, tmpmeta, sched, nUp, nExp, given, tin, tout>>

\* the await the writer waits in raises. In aiofiles.open no destination was
\* created and the body of the async with is never entered: the except-branch
\* finds nothing to unlink. In file.read or f.write (a write that raises comes
\* after the read that took its chunk from the source) the exception leaves
\* the body and the async with closes the destination; in the close it takes
\* the place of whatever left the body and reaches the except-branch
UploadIOError(w, fault) ==
    /\ up[w].pc \in {"opening", "saving", "closing"}
    /\ IF up[w].pc = "saving"
       THEN /\ fault = "none"
            /\ up' = [up EXCEPT ![w].pc = "closing", ![w].exit = "io"]
            /\ UNCHANGED <<blobs, last>>
       ELSE /\ up[w].pc = "opening" => fault = "none"
            /\ blobs' = CleanupPartial(blobs, up[w].stored, fault)
            /\ last' = UploadOutcome(SaveFailedStatus(500), "Failed to save file", "io",
                                     up[w].stored, up[w].declared, up[w].len, up[w].pos)
            /\ up' = [up EXCEPT ![w] = Idle]
    /\ UNCHANGED <<records, temp, tmpmeta, sched, nUp, nExp, given, tin, tout>>

\* where the second try block of upload_audio can raise: nowhere, in db.add or
\* db.commit (the row is not stored), or after db.commit has stored the row
\* (db.refresh, the log call, the construction of the response)
CommitOutcomes == {"ok", "commit_fails", "response_fails"}

\* the except-branch of upload_audio: if file_path.exists(): file_path.unlink(),
\* outside any try, so that a PermissionError of the unlink leaves the blob
\* and replaces the HTTPException the branch was about to raise
CompensateBlob(fs, path, fault) ==
    IF path \in DOMAIN fs /\ fault # "PermissionError" THEN Without(fs, path) ELSE fs

\* the detail of the 500 a failed second try block answers: that of its
\* HTTPException, or the server's own when the unlink raised inside the branch
CompensateDetail(fs, path, fault) ==
    IF path \in DOMAIN fs /\ fault # "none"
    THEN "Internal Server Error" ELSE "Failed to save metadata"

\* the close of the destination returns after the loop has ended, and
\* upload_audio goes on without another await: the record, db.add, db.commit,
\* db.refresh and the response; an exception anywhere in that block unlinks the
\* blob just written, whether or not the commit had stored the row
UploadFinish(w, outcome, fault) ==
    /\ up[w].pc = "closing"
    /\ up[w].exit = "eof"
    /\ LET u == up[w]
       IN  /\ records' = IF outcome = "commit_fails" THEN records
                         ELSE Append(records, AudioRecord(u, u.file_size))
           /\ IF outcome = "ok"
              THEN /\ fault = "none"
                   /\ UNCHANGED blobs
                   /\ last' = UploadOutcome(200, "File uploaded successfully", "",
                                            u.stored, u.declared, u.len, u.pos)
                   /\ given' = With(given, u.stored,
                                    [route |-> u.route, owner |-> u.owner, tags |-> u.tags])
              ELSE /\ UNCHANGED given
                   /\ blobs' = CompensateBlob(blobs, u.stored, fault)
                   /\ last' = UploadOutcome(500, CompensateDetail(blobs, u.stored, fault),
                                            IF outcome = "commit_fails" THEN "db" ELSE "response",
                                            u.stored, u.declared, u.len, u.pos)
    /\ up' = [up EXCEPT ![w] = Idle]
    /\ UNCHANGED <<temp, tmpmeta, sched, nUp, nExp, tin, tout>>

\* the task running upload_audio is cancelled. asyncio.CancelledError is a
\* BaseException, so neither the except-branch of save_uploaded_file nor that
\* of upload_audio runs and nothing unlinks the destination. Raised in
\* file.read (the read that would return no bytes included) or in f.write it
\* leaves the body and the async with closes the destination; raised in
\* aiofiles.open, where no destination exists yet, or in the close it leaves
\* upload_audio at once
UploadCancel(w) ==
    /\ up[w].pc \in {"opening", "saving", "closing"}
    /\ IF up[w].pc = "saving"
       THEN /\ up' = [up EXCEPT ![w].pc = "closing", ![w].exit = "cancel"]
            /\ UNCHANGED last
       ELSE /\ last' = UploadOutcome(0, "", "cancel",
                                     up[w].stored, up[w].declared, up[w].len, up[w].pos)
            /\ up' = [up EXCEPT ![w] = Idle]
    /\ UNCHANGED <<records, blobs, temp, tmpmeta, sched, nUp, nExp, given, tin, tout>>

----------------------------------------------------------------------------
(* Tag Filter *)

\* ListRequest.validate_tag
validate_tag(v) == IF v # None /\ Strip(v) # <<>> THEN Strip(v) ELSE None

\* list_audio_files: ListRequest(tag=clean_input(tag) if tag else None).tag
ListTag(raw) == validate_tag(IF raw # None /\ raw # <<>> THEN clean_input(raw) ELSE None)

\* the filter tag the handler of a route applies: main.py strips the raw query
\* parameter, without clean_input, and takes a blank one as absent
RouteListTag(route, raw) ==
    IF route = "main"
    THEN IF raw # None /\ Strip(raw) # <<>> THEN Strip(raw) ELSE None
    ELSE ListTag(raw)

\* ListRequest.has_tag_filter
has_tag_filter(tag) == tag # None /\ tag # <<>>

\* ListRequest.get_tag_filter
get_tag_filter(tag) == IF tag # None /\ tag # <<>> THEN Lower(tag) ELSE None

\* AudioFile.get_tags: the JSON list written by set_tags
get_tags(f) == f.tags

\* is part occurring in whole, as str.__contains__ tests it
Contains(whole, part) ==
    \E i \in 0..(Len(whole) - Len(part)) : SubSeq(whole, i + 1, i + Len(part)) = part

\* the membership test made on each tag string instead of on the tag list
HasTagSubstring(f, tag_filter) ==
    \E i \in 1..Len(f.tags) : Contains(Lower(f.tags[i]), tag_filter)

\* tag_filter in [t.lower() for t in f.get_tags()]
HasTag(f, tag_filter) == \E i \in 1..Len(get_tags(f)) : Lower(get_tags(f)[i]) = tag_filter

Reverse(s) == [i \in 1..Len(s) |-> s[Len(s) + 1 - i]]

\* a filter that collects the matches last-first
apply_tag_filter_reversed(tag, files_with_tags) ==
    IF tag = None \/ tag = <<>> THEN files_with_tags
    ELSE Reverse(SelectSeq(files_with_tags,
                           LAMBDA f : \E i \in 1..Len(f.tags) : Lower(f.tags[i]) = Lower(tag)))

\* ListRequest.apply_tag_filter
apply_tag_filter(tag, files_with_tags) ==
    IF ~has_tag_filter(tag) THEN files_with_tags
    ELSE SelectSeq(files_with_tags, LAMBDA f : HasTag(f, get_tag_filter(tag)))

\* a query without the filter on user_id
FilesOfAnyone(owner) == records

\* db.query(AudioFile).filter(AudioFile.user_id == user_id).all()
FilesOf(owner) == SelectSeq(records, LAMBDA r : r.user_id = owner)

\* the tag query parameter of the list calls: absent, the documented filter,
\* and a tag with a control character, which clean_input changes
ListTags == {None, <<"R","O","C","K">>, TabText}

\* GET /list of either handler: the rows of the owner, then the tag filter
\* (main.py applies the same test in a loop of its own)
list_audio_files(route, owner, raw) ==
    /\ last' = [op |-> "list", status |-> 200, route |-> route, owner |-> owner, tag |-> raw,
                files |-> apply_tag_filter(RouteListTag(route, raw), FilesOf(owner))]
    /\ UNCHANGED <<records, blobs, temp, tmpmeta, up, sched, nUp, nExp, given, tin, tout>>

----------------------------------------------------------------------------
(* Archive Builder and Cleanup Manager *)

\* where download_user_files can raise: inside create_zip_with_metadata
\* ("build"), in NamedTemporaryFile before the temporary metadata file exists
\* ("tmp_create"), in json.dump or in the append to the archive ("append"), in
\* os.unlink(temp_metadata_path) ("tmp_unlink"), or after it, in
\* os.path.getsize, add_task or FileResponse ("respond")
ExportFaults == {"none", "build", "tmp_create", "append", "tmp_unlink", "respond"}

\* a loop that writes an entry for every record without testing exists()
AudioEntriesUnchecked(audio_files, fs) ==
    [i \in 1..Len(audio_files) |->
        [dir |-> "audio_files", name |-> audio_files[i].original_filename,
         src |-> audio_files[i].stored_filename]]

\* an archive in which an entry replaces the earlier entry of the same name
RECURSIVE AudioEntriesByName(_, _)
AudioEntriesByName(audio_files, fs) ==
    IF audio_files = <<>> THEN <<>>
    ELSE LET file_info == Head(audio_files)
             rest      == AudioEntriesByName(Tail(audio_files), fs)
         IN  IF file_info.stored_filename \in DOMAIN fs
                /\ \A i \in 1..Len(rest) : rest[i].name # file_info.original_filename
             THEN <<[dir |-> "audio_files", name |-> file_info.original_filename,
                     src |-> file_info.stored_filename]>> \o rest
             ELSE rest

\* the loop of create_zip_with_metadata: one entry audio_files/<original
\* name> per record whose blob exists in upload_dir, in record order
RECURSIVE AudioEntries(_, _)
AudioEntries(audio_files, fs) ==
    IF audio_files = <<>> THEN <<>>
    ELSE LET file_info == Head(audio_files)
             rest      == AudioEntries(Tail(audio_files), fs)
         IN  IF file_info.stored_filename # "" /\ file_info.original_filename # ""
                /\ file_info.stored_filename \in DOMAIN fs
             THEN <<[dir |-> "audio_files", name |-> file_info.original_filename,
                     src |-> file_info.stored_filename]>> \o rest
             ELSE rest

\* the metadata.json create_zip_with_metadata writes with zipf.writestr
BuilderManifest(audio_files) ==
    [dir |-> "", name |-> "metadata.json",
     doc |-> [export_timestamp |-> "2024-01-01T00:00:00",
              total_files |-> Len(audio_files), files |-> audio_files]]

\* a dictionary without the additional info and the upload time
to_dict_brief(f) ==
    [id |-> f.id, user_id |-> f.user_id, original_filename |-> f.original_filename,
     file_size |-> f.file_size, mime_type |-> f.mime_type, tags |-> f.tags]

\* AudioFile.to_dict
to_dict(f) ==
    [id |-> f.id, user_id |-> f.user_id, original_filename |-> f.original_filename,
     file_size |-> f.file_size, mime_type |-> f.mime_type, tags |-> get_tags(f),
     additional_info |-> f.additional_info, upload_timestamp |-> f.upload_timestamp]

\* {**f.to_dict(), 'stored_filename': f.stored_filename}
file_info(f) ==
    [key \in DOMAIN to_dict(f) \cup {"stored_filename"} |->
        IF key = "stored_filename" THEN f.stored_filename ELSE to_dict(f)[key]]

\* DownloadRequest.prepare_file_info_list
prepare_file_info_list(files) == [i \in 1..Len(files) |-> file_info(files[i])]

\* DownloadRequest.create_metadata_content, called by the download call
\* number call
create_metadata_content(user_id, file_info_list, call) ==
    [export_timestamp |-> utcnow("export", call), user_id |-> user_id,
     total_files |-> Len(file_info_list), files |-> file_info_list]

\* create_zip_with_metadata on success: the archive it leaves at zip_path.
\* No branch looks at files_added, so an archive without audio entries is
\* returned like any other
create_zip_with_metadata(audio_files, fs) ==
    AudioEntries(audio_files, fs) \o <<BuilderManifest(audio_files)>>

\* zipfile.ZipFile(zip_path, 'a').write(temp_metadata_path, "metadata.json"):
\* append mode adds an entry, an entry of the same name stays in the archive
AppendManifest(entries, doc) ==
    Append(entries, [dir |-> "", name |-> "metadata.json", doc |-> doc])

\* the number of the owner's records whose blob is in upload_dir
PresentCount(files, fs) ==
    Cardinality({i \in 1..Len(files) : files[i].stored_filename \in DOMAIN fs})

\* what a download call answered, with the counts of the owner's records and
\* of their blobs on disk when it ran
ExportOutcome(status, detail, owner, zip_path, files, fs) ==
    [op |-> "export", status |-> status, detail |-> detail, owner |-> owner,
     path |-> zip_path, nfiles |-> Len(files), npresent |-> PresentCount(files, fs)]

\* the archives create_zip_with_metadata can leave at zip_path when it raises
\* and the unlink of its except-branch fails: the entries written before the
\* exception
PartialArchives(built) == {SubSeq(built, 1, n) : n \in 0..Len(built)}

download_user_files(owner, fault, unlink_fault) ==
    /\ nExp < MaxExports
    /\ nExp' = nExp + 1
    /\ LET files    == FilesOf(owner)
           zip_path == uuid4("audio_export", nExp + 1)
           file_info_list == prepare_file_info_list(files)
           built    == create_zip_with_metadata(file_info_list, blobs)
           complete == AppendManifest(built,
                           create_metadata_content(owner, file_info_list, nExp + 1))
       IN  IF files = <<>>
           THEN /\ fault = "none"
                /\ unlink_fault = "none"
                /\ last' = ExportOutcome(404, "No files found for this user", owner, uuid4("audio_export", 0), files, blobs)
                /\ UNCHANGED <<temp, tmpmeta, sched>>
           ELSE /\ last' = ExportOutcome(IF fault = "none" THEN 200 ELSE 500,
                                         IF fault = "none" THEN "application/zip"
                                         ELSE "Failed to create download archive",
                                         owner, zip_path, files, blobs)
                /\ fault # "build" => unlink_fault = "none"
                /\ CASE fault = "build" ->
                          \* create_zip_with_metadata raises: its except-branch
                          \* unlinks the partial zip, or logs that it could not
                          /\ \E partial \in PartialArchives(built) :
                                temp' = unlink_if_exists(With(temp, zip_path, partial),
                                                         zip_path, unlink_fault).fs
                          /\ UNCHANGED <<tmpmeta, sched>>
                     [] fault = "tmp_create" ->
                          /\ temp' = With(temp, zip_path, built)
                          /\ UNCHANGED <<tmpmeta, sched>>
                     [] fault = "append" ->
                          /\ temp' = With(temp, zip_path, built)
                          /\ tmpmeta' = tmpmeta \cup {zip_path}
                          /\ UNCHANGED sched
                     [] fault = "tmp_unlink" ->
                          /\ temp' = With(temp, zip_path, complete)
                          /\ tmpmeta' = tmpmeta \cup {zip_path}
                          /\ UNCHANGED sched
                     [] fault = "respond" ->
                          /\ temp' = With(temp, zip_path, complete)
                          /\ UNCHANGED <<tmpmeta, sched>>
                     [] OTHER ->
                          /\ temp' = With(temp, zip_path, complete)
                          /\ sched' = With(sched, zip_path, "scheduled")
                          /\ UNCHANGED tmpmeta
    /\ UNCHANGED <<records, blobs, up, nUp, given, tin, tout>>

\* the FileResponse has been sent to the client
SendResponse(zip_path) ==
    /\ zip_path \in DOMAIN sched
    /\ sched[zip_path] = "scheduled"
    /\ sched' = [sched EXCEPT ![zip_path] = "sent"]
    /\ UNCHANGED <<records, blobs, temp, tmpmeta, up, nUp, nExp, last, given, tin, tout>>

\* sending the FileResponse fails (the client has gone): the response raises
\* before it reaches its background task, which never runs
SendFails(zip_path) ==
    /\ zip_path \in DOMAIN sched
    /\ sched[zip_path] = "scheduled"
    /\ sched' = Without(sched, zip_path)
    /\ UNCHANGED <<records, blobs, temp, tmpmeta, up, nUp, nExp, last, given, tin, tout>>

\* a task that may run as soon as it is registered
ReleaseMayRunAtOnce(stage) == stage \in {"scheduled", "sent"}

\* background_tasks.add_task: the task runs after the response has been sent
ReleaseMayRun(stage) == stage = "sent"

\* the background task: cleanup_temp_file(zip_path)
cleanup_temp_file(zip_path, fault) ==
    /\ zip_path \in DOMAIN sched
    /\ ReleaseMayRun(sched[zip_path])
    /\ temp' = unlink_if_exists(temp, zip_path, fault).fs
    /\ sched' = Without(sched, zip_path)
    /\ UNCHANGED <<records, blobs, tmpmeta, up, nUp, nExp, last, given, tin, tout>>

\* outside the core: the blob of a committed record disappears from upload_dir
BlobLost(stored) ==
    /\ stored \in DOMAIN blobs
    /\ \E i \in 1..Len(records) : records[i].stored_filename = stored
    /\ blobs' = Without(blobs, stored)
    /\ UNCHANGED <<records, temp, tmpmeta, up, sched, nUp, nExp, last, given, tin, tout>>

----------------------------------------------------------------------------
(* Specifications *)

Empty == [x \in {} |-> 0]

InitSys ==
    /\ records = <<>>
    /\ blobs = Empty
    /\ temp = Empty
    /\ tmpmeta = {}
    /\ up = [w \in Workers |-> Idle]
    /\ sched = Empty
    /\ nUp = 0
    /\ nExp = 0
    /\ last = [op |-> "none"]
    /\ given = Empty

NoInput == [kind |-> "none"]

NotRun == [done |-> FALSE]

Init ==
    /\ InitSys
    /\ tin = NoInput
    /\ tout = NotRun

\* the awaits of a writer that return: the open, the reads and the writes
UploadPass ==
    \/ \E w \in Workers : UploadOpen(w)
    \/ \E w \in Workers : UploadRead(w)
    \/ \E w \in Workers, unlinked \in BOOLEAN : UploadWrite(w, unlinked)
    \/ \E w \in Workers : UploadEnd(w)

\* the passes of a writer whose reads, writes, closes and unlinks do not fail
UploadPassNoFault ==
    \/ UploadPass
    \/ \E w \in Workers : UploadClose(w, "none")

\* the requests of POST /upload: the handler that serves them and the tags
\* field they carry. The api/v1 handler gets the documented example, main.py's
\* handler a field with a control character, which it stores as it is
UploadForms == {<<"v1", RockText>>, <<"main", TabText>>}

Upload ==
    \/ \E w \in Workers, form \in UploadForms, owner \in Owners, file \in FileInputs,
          declared \in DeclaredSizes, info \in InfoTexts, len \in StreamLens :
            UploadBegin(w, form[1], owner, file[1], file[2], declared, form[2], info, len)
    \/ UploadPass
    \/ \E w \in Workers, fault \in UnlinkFaults : UploadClose(w, fault)
    \/ \E w \in Workers, fault \in UnlinkFaults : UploadIOError(w, fault)
    \/ \E w \in Workers : UploadCancel(w)
    \/ \E w \in Workers, outcome \in CommitOutcomes, fault \in UnlinkFaults :
            UploadFinish(w, outcome, fault)

List == \E route \in Routes, owner \in Owners, raw \in ListTags : list_audio_files(route, owner, raw)

Export ==
    \/ \E owner \in Owners, fault \in ExportFaults, unlink_fault \in UnlinkFaults :
            download_user_files(owner, fault, unlink_fault)
    \/ \E zip_path \in DOMAIN sched : SendResponse(zip_path)
    \/ \E zip_path \in DOMAIN sched : SendFails(zip_path)
    \/ \E zip_path \in DOMAIN sched, fault \in UnlinkFaults : cleanup_temp_file(zip_path, fault)

Next == Upload \/ List \/ Export

\* the core operations alone
Spec == Init /\ [][Next]_vars

\* a tags field of 261 characters: a tag of 250 letters and a tag of 10
LongText == [i \in 1..250 |-> "a"] \o <<",">> \o [i \in 1..10 |-> "b"]

\* the second tag of LongText
LongTag == [i \in 1..10 |-> "b"]

\* the upload forms of SpecRead: the documented example, the field with a
\* control character and the long field, each through either handler
ReadForms == Routes \X {RockText, TabText, LongText}

\* the filters of SpecRead: those of List, and the second tag of LongText
ReadTags == ListTags \cup {LongTag}

\* short uploads of both owners through both handlers, which a failed commit,
\* a failed response or a cancellation can end, and the lists of both handlers
\* that read their records
NextRead ==
    \/ \E w \in Workers, form \in ReadForms, owner \in Owners :
            UploadBegin(w, form[1], owner, "song.mp3", "audio/mpeg", 0, form[2], <<>>, 1000)
    \/ UploadPassNoFault
    \/ \E w \in Workers : UploadCancel(w)
    \/ \E w \in Workers, outcome \in CommitOutcomes : UploadFinish(w, outcome, "none")
    \/ \E route \in Routes, owner \in Owners, raw \in ReadTags :
            list_audio_files(route, owner, raw)

SpecRead == Init /\ [][NextRead]_vars

Loss == \E stored \in DOMAIN blobs : BlobLost(stored)

\* uploads and downloads in which no read, write or commit fails
UploadNoFault ==
    \/ \E w \in Workers, owner \in Owners, file \in FileInputs,
          declared \in DeclaredSizes, text \in TagTexts, info \in InfoTexts, len \in StreamLens :
            UploadBegin(w, "v1", owner, file[1], file[2], declared, text, info, len)
    \/ UploadPassNoFault
    \/ \E w \in Workers : UploadFinish(w, "ok", "none")

ExportNoFault ==
    \/ \E owner \in Owners : download_user_files(owner, "none", "none")
    \/ \E zip_path \in DOMAIN sched : SendResponse(zip_path)
    \/ \E zip_path \in DOMAIN sched : cleanup_temp_file(zip_path, "none")

NextLoss == UploadNoFault \/ ExportNoFault \/ Loss

NextWriter ==
    \/ \E w \in Workers, owner \in {"alice"}, file \in FileInputs,
          declared \in {1000, max_file_size + 1}, text \in TagTexts, info \in InfoTexts,
          len \in WriterLens :
            UploadBegin(w, "v1", owner, file[1], file[2], declared, text, info, len)
    \/ UploadPass
    \/ \E w \in Workers, fault \in UnlinkFaults : UploadClose(w, fault)
    \/ \E w \in Workers, fault \in UnlinkFaults : UploadIOError(w, fault)
    \/ \E w \in Workers, outcome \in CommitOutcomes, fault \in UnlinkFaults :
            UploadFinish(w, outcome, fault)

\* uploads alone, over streams of every length class
SpecWriter == Init /\ [][NextWriter]_vars

\* the steps of worker w's upload in which the await it waits in returns
WriterStep(w) ==
    \/ UploadOpen(w)
    \/ UploadRead(w)
    \/ \E unlinked \in BOOLEAN : UploadWrite(w, unlinked)
    \/ UploadEnd(w)
    \/ \E fault \in UnlinkFaults : UploadClose(w, fault)
    \/ \E outcome \in CommitOutcomes, fault \in UnlinkFaults : UploadFinish(w, outcome, fault)

\* uploads without tags over streams of every length class whose opens, reads,
\* writes and closes do not raise; the unlinks of an abort and the commit can
\* fail
NextStore ==
    \/ \E w \in Workers, len \in WriterLens :
            UploadBegin(w, "v1", "alice", "song.mp3", "audio/mpeg", 1000, <<>>, <<>>, len)
    \/ \E w \in Workers : WriterStep(w)

\* the event loop resumes a task whose await has returned: an upload in flight
\* whose awaits return takes its next step
SpecStore == Init /\ [][NextStore]_vars /\ \A w \in Workers : WF_vars(WriterStep(w))

\* uploads of one owner that no fault interrupts, but a cancellation can
NextCancel ==
    \/ \E w \in Workers, len \in WriterLens :
            UploadBegin(w, "v1", "alice", "song.mp3", "audio/mpeg", 0, RockText, <<>>, len)
    \/ UploadPassNoFault
    \/ \E w \in Workers : UploadCancel(w)
    \/ \E w \in Workers : UploadFinish(w, "ok", "none")

SpecCancel == Init /\ [][NextCancel]_vars

\* fault-free uploads and downloads on a storage area that can lose blobs
SpecLoss == Init /\ [][NextLoss]_vars

\* short uploads of both owners, one at a time, with and without additional
\* info, that can fail after their commit, and the downloads that read their
\* records
NextExport ==
    \/ \E w \in {1}, form \in {<<"alice", <<>>>>, <<"alice", LiveText>>, <<"bob", <<>>>>} :
            UploadBegin(w, "v1", form[1], "song.mp3", "audio/mpeg", 0, RockText, form[2], 1000)
    \/ UploadPass
    \/ \E w \in Workers, outcome \in {"ok", "response_fails"} : UploadFinish(w, outcome, "none")
    \/ \E owner \in Owners, fault \in ExportFaults : download_user_files(owner, fault, "none")
    \/ \E zip_path \in DOMAIN sched : SendResponse(zip_path)
    \/ \E zip_path \in DOMAIN sched : SendFails(zip_path)
    \/ \E zip_path \in DOMAIN sched, fault \in UnlinkFaults : cleanup_temp_file(zip_path, fault)

SpecExport == Init /\ [][NextExport]_vars

\* fault-free short uploads of both owners, and the lists and downloads that
\* read their records
NextOwners ==
    \/ \E w \in Workers, owner \in Owners :
            UploadBegin(w, "v1", owner, "song.mp3", "audio/mpeg", 0, RockText, <<>>, 1000)
    \/ UploadPass
    \/ \E w \in Workers : UploadFinish(w, "ok", "none")
    \/ List
    \/ ExportNoFault

SpecOwners == Init /\ [][NextOwners]_vars

----------------------------------------------------------------------------
(* The tag functions on their own *)

\* tag form fields: every text of at most MaxTextLen characters, and the
\* documented example
TagInputs == TextsUpTo(Chars, MaxTextLen) \cup {RockText}

InitTags ==
    /\ InitSys
    /\ tin \in {[kind |-> "tags", text |-> t] : t \in TagInputs}
    /\ tout = NotRun

\* the tags upload_audio stores for the form field tin.text
ParseTags ==
    /\ tin.kind = "tags"
    /\ ~tout.done
    /\ tout' = [done |-> TRUE, tags |-> UploadTags(tin.text)]
    /\ UNCHANGED <<records, blobs, temp, tmpmeta, up, sched, nUp, nExp, last, given, tin>>

SpecTags == InitTags /\ [][ParseTags]_vars

\* the tag lists of the stored records the filter is applied to
StoredTagTexts ==
    {<<>>, <<"a">>, <<"a", "b">>, <<"A", ",", "b">>, RockText, RockerText}

\* a row of audio_files with the given tags
StoredFile(i, text) ==
    [id |-> uuid4("file", i), user_id |-> "alice", original_filename |-> "song.mp3",
     stored_filename |-> generate_unique_filename(i, "song.mp3"), file_size |-> 1000,
     mime_type |-> "audio/mpeg", tags |-> UploadTags(text), additional_info |-> None,
     upload_timestamp |-> utcnow("upload", i)]

FileLists ==
    UNION {{[i \in 1..n |-> StoredFile(i, texts[i])] : texts \in [1..n -> StoredTagTexts]}
           : n \in 0..MaxListLen}

\* the tag query parameter: absent, every text of at most MaxFilterLen
\* characters, and the documented examples
FilterInputs ==
    {None} \cup TextsUpTo(FilterChars, MaxFilterLen)
           \cup {<<"R","o","c","k">>, <<"R","O","C","K">>, <<" ","r","o","c","k">>}

InitFilter ==
    /\ InitSys
    /\ tin \in {[kind |-> "filter", files |-> fs, tag |-> raw] : fs \in FileLists, raw \in FilterInputs}
    /\ tout = NotRun

\* ListRequest(tag=...).apply_tag_filter(all_files) as list_audio_files calls it
ApplyFilter ==
    /\ tin.kind = "filter"
    /\ ~tout.done
    /\ tout' = [done |-> TRUE, files |-> apply_tag_filter(ListTag(tin.tag), tin.files)]
    /\ UNCHANGED <<records, blobs, temp, tmpmeta, up, sched, nUp, nExp, last, given, tin>>

SpecFilter == InitFilter /\ [][ApplyFilter]_vars

----------------------------------------------------------------------------
(* validate_audio_file on its own *)

\* UploadFile.filename: absent, an mp3, a text file, a wav, a name without
\* extension and a dot-file
ValidatorNames == {"", "song.mp3", "memo.txt", "song.wav", "noext", ".mp3"}

\* UploadFile.content_type; "None" stands for an absent header
ValidatorTypes == {"audio/mpeg", "audio/mp3", "text/plain", "audio/x-wav", "application/octet-stream", "None"}

\* UploadFile.size; 0 stands for an absent size
ValidatorSizes == {0, 1000, max_file_size, max_file_size + 1}

InitValidate ==
    /\ InitSys
    /\ tin \in {[kind |-> "validate", filename |-> n, size |-> z, content_type |-> c] :
                    n \in ValidatorNames, z \in ValidatorSizes, c \in ValidatorTypes}
    /\ tout = NotRun

\* is_valid, mime_type = validate_audio_file(audio, config.file_config)
Validate ==
    /\ tin.kind = "validate"
    /\ ~tout.done
    /\ LET v == validate_audio_file(tin.filename, tin.size, tin.content_type)
       IN  tout' = [done |-> TRUE, is_valid |-> v[1], value |-> v[2]]
    /\ UNCHANGED <<records, blobs, temp, tmpmeta, up, sched, nUp, nExp, last, given, tin>>

SpecValidate == InitValidate /\ [][Validate]_vars

----------------------------------------------------------------------------
(* cleanup_temp_file on its own *)

ReleasePaths == {uuid4("audio_export", 1), uuid4("audio_export", 2)}

\* the temp directories the calls start from: any of the paths may hold an
\* archive
ReleaseDirs ==
    UNION {[present -> {create_zip_with_metadata(<<>>, Empty)}] : present \in SUBSET ReleasePaths}

InitRelease ==
    /\ records = <<>>
    /\ blobs = Empty
    /\ temp \in ReleaseDirs
    /\ tmpmeta = {}
    /\ up = [w \in Workers |-> Idle]
    /\ sched = Empty
    /\ nUp = 0
    /\ nExp = 0
    /\ last = [op |-> "none"]
    /\ given = Empty
    /\ tin = [kind |-> "release"]
    /\ tout = [done |-> FALSE, calls |-> <<>>]

\* a call cleanup_temp_file(file_path), made at any time on any location
Release(file_path, fault) ==
    /\ tin.kind = "release"
    /\ Len(tout.calls) < MaxReleases
    /\ LET result == unlink_if_exists(temp, file_path, fault)
       IN  /\ temp' = result.fs
           /\ tout' = [done |-> TRUE,
                       calls |-> Append(tout.calls,
                                        [path |-> file_path, existed |-> file_path \in DOMAIN temp,
                                         fault |-> fault, raised |-> result.raised])]
    /\ UNCHANGED <<records, blobs, tmpmeta, up, sched, nUp, nExp, last, given, tin>>

NextRelease == \E file_path \in ReleasePaths, fault \in UnlinkFaults : Release(file_path, fault)

SpecRelease == InitRelease /\ [][NextRelease]_vars

----------------------------------------------------------------------------
(* Claims about the upload flow (SpecWriter) *)

\* the row committed for the blob at a destination
RecordAt(stored) == CHOOSE r \in Range(records) : r.stored_filename = stored

Committed(stored) == \E r \in Range(records) : r.stored_filename = stored

\* the last call was an upload whose stream delivered more than the limit
LastOversize == last.op = "upload" /\ last.read > max_file_size

\* C1: an upload whose stream delivers more than max_file_size bytes is
\* answered with the TooLarge kind (413), not with the status of a write failure
C1_OversizeAnsweredTooLarge == LastOversize => last.status = 413

\* the destination worker w is writing to or closing
Dest(w) == IF up[w].pc # "idle" THEN up[w].stored ELSE NoBlob

\* worker w's upload ends in this step because its stream crossed the limit:
\* the destination is closed and the HTTPException reaches the except-branch
AbortsOnLimit(w) ==
    /\ up[w].pc = "closing"
    /\ up'[w].pc = "idle"
    /\ last'.op = "upload"
    /\ last'.stored = Dest(w)
    /\ last'.cause = "limit"
    /\ last'.read > max_file_size

\* C2: the step that aborts an upload on the size limit leaves no file at the
\* destination, leaves every other file of the storage directory as it was,
\* and persists no record
C2_OversizeLeavesNoTrace ==
    [][\A w \in Workers :
          AbortsOnLimit(w) =>
            /\ Dest(w) \notin DOMAIN blobs'
            /\ blobs' = Without(blobs, Dest(w))
            /\ records' = records
            /\ \A r \in Range(records') : r.stored_filename # Dest(w)]_vars

\* an oversize upload was aborted while another upload's blob is stored
C2_Witness ==
    /\ LastOversize
    /\ last.stored \notin DOMAIN blobs
    /\ \E r \in Range(records) : r.stored_filename \in DOMAIN blobs

\* C3: after a successful upload the record's file_size is the number of
\* bytes read from the stream and the length of the blob on disk, whatever
\* size was declared
C3_SizeIsBytesRead ==
    (last.op = "upload" /\ last.status = 200) =>
        /\ Committed(last.stored)
        /\ RecordAt(last.stored).file_size = last.read
        /\ last.read = last.len
        /\ last.stored \in DOMAIN blobs
        /\ blobs[last.stored] = RecordAt(last.stored).file_size

\* a stream of several chunks, the last one short, stored under a declared
\* size that is not its length
C3_Witness ==
    /\ last.op = "upload"
    /\ last.status = 200
    /\ last.len = max_file_size
    /\ last.declared = 1000
    /\ RecordAt(last.stored).file_size = max_file_size

----------------------------------------------------------------------------
(* Claims about tag normalization (SpecTags) *)

RECURSIVE FirstSeen(_, _)
FirstSeen(s, seen) ==
    IF s = <<>> THEN <<>>
    ELSE IF Head(s) \in seen THEN FirstSeen(Tail(s), seen)
    ELSE <<Head(s)>> \o FirstSeen(Tail(s), seen \cup {Head(s)})

\* the documented normalization: split on the comma, trim and lowercase each
\* entry, drop the empty ones, keep the first occurrence of each
DocumentedTags(text) ==
    LET pieces == Split(text, ",")
        folded == [i \in 1..Len(pieces) |-> Lower(Strip(pieces[i]))]
    IN  FirstSeen(SelectSeq(folded, LAMBDA t : t # <<>>), {})

\* C4: the tags stored for a tag text are its comma-separated entries, each
\* trimmed and lowercased, empty entries dropped, duplicates removed in
\* first-seen order ("Rock, rock , Pop" gives rock, pop)
C4_TagsTrimmedLoweredDeduped ==
    (tin.kind = "tags" /\ tout.done) => tout.tags = DocumentedTags(tin.text)

\* C5: normalizing the re-joined result of the upload normalization gives the
\* same tag list
C5_NormalizationIdempotent ==
    (tin.kind = "tags" /\ tout.done) => UploadTags(Join(tout.tags, ",")) = tout.tags

\* the documented example has been normalized to a list of several tags
C5_Witness ==
    /\ tin.kind = "tags"
    /\ tin.text = RockText
    /\ tout.done
    /\ Len(tout.tags) > 1

----------------------------------------------------------------------------
(* Claims about the tag filter (SpecFilter) *)

\* the same text up to the case of its letters
SameIgnoringCase(a, b) ==
    /\ Len(a) = Len(b)
    /\ \A k \in 1..Len(a) : LowerChar(a[k]) = LowerChar(b[k])

\* no filter tag was given: the parameter is absent or blank
NoFilterGiven(raw) == raw = None \/ Strip(raw) = <<>>

Filtered == tin.kind = "filter" /\ tout.done

\* C6: with a filter tag, a record is returned exactly when one of its stored
\* tags is the (trimmed) filter tag as a whole, letter case ignored; a stored
\* tag that merely contains the filter tag does not match
C6_FilterMatchesWholeTagIgnoringCase ==
    (Filtered /\ ~NoFilterGiven(tin.tag)) =>
        \A i \in 1..Len(tin.files) :
            (tin.files[i] \in Range(tout.files))
                <=> \E k \in 1..Len(tin.files[i].tags) :
                        SameIgnoringCase(tin.files[i].tags[k], Strip(tin.tag))

\* filter ROCK over a record tagged Rock, rock, Pop and a record tagged rocker
C6_Witness ==
    /\ Filtered
    /\ tin.tag = <<"R","O","C","K">>
    /\ Len(tin.files) = 2
    /\ tin.files[1].tags = UploadTags(RockText)
    /\ tin.files[2].tags = <<RockerText>>
    /\ tout.files = <<tin.files[1]>>

RECURSIVE IsSubsequence(_, _)
IsSubsequence(a, b) ==
    IF a = <<>> THEN TRUE
    ELSE IF b = <<>> THEN FALSE
    ELSE IF Head(a) = Head(b) THEN IsSubsequence(Tail(a), Tail(b))
    ELSE IsSubsequence(a, Tail(b))

\* C7: the filter returns a subsequence of its input (same relative order,
\* each record at most once, nothing new), and the input itself when no
\* filter tag is given
C7_FilterReturnsSubsequence ==
    Filtered =>
        /\ IsSubsequence(tout.files, tin.files)
        /\ NoFilterGiven(tin.tag) => tout.files = tin.files

\* two records match the filter and come back in their input order
C7_Witness ==
    /\ Filtered
    /\ ~NoFilterGiven(tin.tag)
    /\ Len(tin.files) = 2
    /\ tin.files[1].tags # tin.files[2].tags
    /\ tout.files = tin.files

----------------------------------------------------------------------------
(* Claims about the export (SpecLoss, Spec) *)

\* the last call was a download of an owner who has records
LastExport == last.op = "export" /\ last.nfiles >= 1

ManifestCount(entries) ==
    Cardinality({i \in 1..Len(entries) : entries[i].dir = "" /\ entries[i].name = "metadata.json"})

AudioCount(entries) ==
    Cardinality({i \in 1..Len(entries) : entries[i].dir = "audio_files"})

\* C8: when every blob of the owner's records is missing, the download fails
\* and leaves no archive in the temp directory
C8_AllMissingFailsEmptyArchive ==
    (LastExport /\ last.npresent = 0) =>
        /\ last.status # 200
        /\ last.path \notin DOMAIN temp

\* C9: when at least one blob is present the download succeeds; every
\* manifest of the archive has total_files equal to the number of the owner's
\* records and the archive has one audio_files/ entry per present blob
C9_MixedExportSucceeds ==
    (LastExport /\ last.npresent >= 1) =>
        /\ last.status = 200
        /\ last.path \in DOMAIN temp =>
             /\ ManifestCount(temp[last.path]) >= 1
             /\ \A i \in 1..Len(temp[last.path]) :
                    temp[last.path][i].dir = "" => temp[last.path][i].doc.total_files = last.nfiles
             /\ AudioCount(temp[last.path]) = last.npresent

\* a download over two records, one blob present and one missing
C9_Witness ==
    /\ LastExport
    /\ last.nfiles = 2
    /\ last.npresent = 1
    /\ last.status = 200
    /\ last.path \in DOMAIN temp

\* C10: the archive of a successful download has exactly one metadata entry
\* at its root
C10_ExactlyOneManifest ==
    (LastExport /\ last.status = 200 /\ last.path \in DOMAIN temp) =>
        ManifestCount(temp[last.path]) = 1

----------------------------------------------------------------------------
(* Claims about cleanup_temp_file (SpecRelease) *)

\* C11: cleanup_temp_file never raises, whether the location holds a file,
\* holds none (never did, or was released before) or the deletion fails; after
\* a call that found the file and deleted it the location is empty
C11_ReleaseNeverRaises ==
    (tin.kind = "release" /\ tout.done) =>
        /\ \A i \in 1..Len(tout.calls) : ~tout.calls[i].raised
        /\ LET c == tout.calls[Len(tout.calls)]
           IN  (c.existed /\ c.fault = "none") => c.path \notin DOMAIN temp

\* the same location released twice: the first call deleted the archive, the
\* second found nothing
C11_Witness ==
    /\ tin.kind = "release"
    /\ Len(tout.calls) = 2
    /\ tout.calls[1].path = tout.calls[2].path
    /\ tout.calls[1].existed
    /\ tout.calls[1].fault = "none"
    /\ ~tout.calls[2].existed
    /\ ~tout.calls[2].raised

----------------------------------------------------------------------------
(* Claims about failed uploads (Spec, SpecWriter, SpecCancel) *)

\* C12: in every reachable state every committed record has its blob in the
\* storage directory
C12_VisibleRecordHasBlob ==
    \A r \in Range(records) : r.stored_filename \in DOMAIN blobs

\* the last call was an upload whose db.add or db.commit raised
LastPersistFailed == last.op = "upload" /\ last.cause = "db"

\* C13: when the commit of the record fails after the blob was written, the
\* failure is reported with no file at the upload's destination and no record
\* of the upload
C13_PersistFailureDeletesBlob ==
    LastPersistFailed =>
        /\ last.status = 500
        /\ last.stored \notin DOMAIN blobs
        /\ ~Committed(last.stored)

\* the commit failed for a stream of several chunks that had been written in
\* full, while the blob of an earlier upload is stored
C13_Witness ==
    /\ LastPersistFailed
    /\ last.read = max_file_size
    /\ last.stored \notin DOMAIN blobs
    /\ \E r \in Range(records) : r.stored_filename \in DOMAIN blobs

\* the last call was an upload that save_uploaded_file ended with an exception
LastWriterFailed == last.op = "upload" /\ last.cause \in {"io", "limit"}

\* C14: when the writer fails (a read or a write raises, or the size limit is
\* crossed) no file is left at its destination
C14_WriterFailureLeavesNoFile ==
    LastWriterFailed => last.stored \notin DOMAIN blobs

\* a read or write failed after a chunk had been written to the destination
C14_Witness ==
    /\ last.op = "upload"
    /\ last.cause = "io"
    /\ last.read >= chunk_size
    /\ last.stored \notin DOMAIN blobs

\* C15: an upload cancelled between two chunks leaves no partial blob at its
\* destination
C15_CancelLeavesNoPartialBlob ==
    (last.op = "upload" /\ last.cause = "cancel") => last.stored \notin DOMAIN blobs

----------------------------------------------------------------------------
(* Claims about failed exports (Spec) *)

\* C16: a download that fails after create_zip_with_metadata has opened the
\* archive leaves no file of its own in the temp directory
C16_FailedExportLeavesNoArtifact ==
    (LastExport /\ last.status = 500) => last.path \notin DOMAIN temp

----------------------------------------------------------------------------
(* Claims about the validator (SpecValidate, SpecWriter) *)

\* the validator ran on a named file whose declared size passes the size test
TypeDecided ==
    /\ tin.kind = "validate"
    /\ tout.done
    /\ tin.filename # ""
    /\ ~(tin.size # 0 /\ tin.size > max_file_size)

\* C17: the effective media type is the declared type when that is allowed,
\* else the type inferred from the filename when that is allowed, else the
\* file is rejected as unsupported; an accepted type is always an allowed one
C17_EffectiveTypePolicy ==
    TypeDecided =>
        /\ tin.content_type \in supported_audio_types
              => (tout.is_valid /\ tout.value = tin.content_type)
        /\ (tin.content_type \notin supported_audio_types
              /\ guess_type(tin.filename) \in supported_audio_types)
              => (tout.is_valid /\ tout.value = guess_type(tin.filename))
        /\ (tin.content_type \notin supported_audio_types
              /\ guess_type(tin.filename) \notin supported_audio_types)
              => (~tout.is_valid /\ tout.value = "This is an unsupported file type")
        /\ tout.is_valid => tout.value \in supported_audio_types

\* an mp3 declared as audio/mp3 is accepted with the declared type, not with
\* audio/mpeg, the type its name infers
C17_Witness ==
    /\ TypeDecided
    /\ tin.filename = "song.mp3"
    /\ tin.content_type = "audio/mp3"
    /\ guess_type(tin.filename) = "audio/mpeg"
    /\ tout.is_valid
    /\ tout.value = "audio/mp3"

\* this step is an upload call answered with the validator's rejection: the
\* answer is the new one of a call that has just been made (a call that starts
\* a writer and answers nothing leaves the last answer as it was)
RejectsUpload ==
    /\ nUp' = nUp + 1
    /\ last'.op = "upload"
    /\ last'.cause = "validation"
    /\ (up' = up \/ last' # last)

\* C18: the step that rejects an upload in validation answers 400, creates or
\* changes no file of the storage directory, persists no record, has read no
\* byte of the stream and starts no writer that would
C18_ValidationErrorHasNoSideEffects ==
    [][RejectsUpload =>
          /\ last'.status = 400
          /\ last'.read = 0
          /\ blobs' = blobs
          /\ records' = records
          /\ up' = up]_vars

\* an upload was rejected as too large by its declared size while a record and
\* its blob are stored
C18_Witness ==
    /\ last.op = "upload"
    /\ last.cause = "validation"
    /\ last.detail = "File too large"
    /\ last.read = 0
    /\ records # <<>>
    /\ DOMAIN blobs # {}

----------------------------------------------------------------------------
(* Claims about the visibility of uploads (SpecRead, Spec) *)

\* the tags a client gave in a tags form field: its entries between commas,
\* trimmed, the empty ones left out
GivenTags(text) ==
    LET pieces  == Split(text, ",")
        trimmed == [i \in 1..Len(pieces) |-> Strip(pieces[i])]
    IN  SelectSeq(trimmed, LAMBDA t : t # <<>>)

\* the filter tag of the last list call is one of the tags given in the tags
\* field text, letter case ignored
FilterNamesTagOf(text) ==
    /\ last.tag # None
    /\ \E k \in 1..Len(GivenTags(text)) : SameIgnoringCase(GivenTags(text)[k], Strip(last.tag))

\* C19: a list call returns the record of every upload that the same handler
\* set answered with success for its owner before, when the call has no tag
\* filter and when its filter is one of the tags given at that upload
C19_AcknowledgedUploadIsListed ==
    last.op = "list" =>
        \A stored \in DOMAIN given :
            (/\ given[stored].route = last.route
             /\ given[stored].owner = last.owner
             /\ (last.tag = None \/ FilterNamesTagOf(given[stored].tags)))
                => \E r \in Range(last.files) : r.stored_filename = stored

\* C20: a visible record's blob is complete and stays as it was written: it
\* is in the storage directory with the recorded size, no writer has it as
\* destination, and no archive holds an entry read from a destination still
\* being written
C20_VisibleBlobCompleteAndImmutable ==
    /\ \A r \in Range(records) :
          /\ \A w \in Workers : Dest(w) # r.stored_filename
          /\ r.stored_filename \in DOMAIN blobs
          /\ blobs[r.stored_filename] = r.file_size
    /\ \A zip_path \in DOMAIN temp :
          \A i \in 1..Len(temp[zip_path]) :
              temp[zip_path][i].dir = "audio_files"
                  => \A w \in Workers : Dest(w) # temp[zip_path][i].src

----------------------------------------------------------------------------
(* Claims about concurrent uploads and the size limit (SpecWriter) *)

\* the destinations of the writers in flight and of the committed records are
\* pairwise distinct
DestinationsDistinct ==
    /\ \A v, w \in Workers :
          (v # w /\ up[v].pc # "idle" /\ up[w].pc # "idle") => Dest(v) # Dest(w)
    /\ \A w \in Workers : \A r \in Range(records) : Dest(w) # r.stored_filename
    /\ \A i, j \in 1..Len(records) :
          i # j => records[i].stored_filename # records[j].stored_filename

\* the destination worker w has after this step
NextDest(w) == IF up'[w].pc # "idle" THEN up'[w].stored ELSE NoBlob

\* a step of worker w's upload touches no file but w's own destination, and
\* the destination it opens did not exist
TouchesOwnDestinationOnly(w) ==
    /\ (up[w] # up'[w] /\ up[w].pc # "idle") =>
          \A path \in DOMAIN blobs \ {Dest(w)} :
              path \in DOMAIN blobs' /\ blobs'[path] = blobs[path]
    /\ (up[w].pc = "idle" /\ up'[w].pc # "idle") =>
          /\ NextDest(w) \notin DOMAIN blobs
          /\ blobs' = blobs
    /\ (up[w].pc = "opening" /\ up'[w].pc = "saving") => Dest(w) \notin DOMAIN blobs

\* C21: every upload writes to a destination of its own, distinct from the
\* destination of every other upload in flight and from every stored blob, and
\* no step of an upload (its failure cleanup included) changes or deletes a
\* file other than its own destination
C21_UploadsHaveOwnDestination ==
    /\ []DestinationsDistinct
    /\ [][\A w \in Workers : TouchesOwnDestinationOnly(w)]_vars

\* two uploads of the same owner and the same original name have given two
\* records and two blobs
C21_Witness ==
    /\ Len(records) = 2
    /\ records[1].user_id = records[2].user_id
    /\ records[1].original_filename = records[2].original_filename
    /\ records[1].stored_filename # records[2].stored_filename
    /\ records[1].stored_filename \in DOMAIN blobs
    /\ records[2].stored_filename \in DOMAIN blobs

\* the offset at which the writer stops on a stream of len bytes: the end of
\* the first chunk that takes the total over the limit, or the end of the
\* stream
RECURSIVE StopsAt(_, _)
StopsAt(len, pos) ==
    IF pos >= len \/ pos > max_file_size THEN pos
    ELSE StopsAt(len, pos + Min(chunk_size, len - pos))

\* C25: the writer never goes on after a chunk that took the total over the
\* limit: a writer that waits for its next read has counted at most
\* max_file_size bytes, the total was within the limit before the chunk a
\* writer holds, a writer that closes its destination on the limit and an
\* upload aborted on the limit had read exactly up to the end of the first
\* chunk that crossed it, and no upload has read beyond that chunk
C25_AbortsAtFirstCrossingChunk ==
    /\ \A w \in Workers :
          up[w].pc # "idle" =>
              /\ up[w].pos = up[w].file_size
              /\ up[w].pos <= StopsAt(up[w].len, 0)
              /\ up[w].pc = "saving" => up[w].file_size - up[w].chunk <= max_file_size
              /\ up[w].exit = "limit" =>
                    /\ up[w].pos = StopsAt(up[w].len, 0)
                    /\ up[w].pos > max_file_size
    /\ (last.op = "upload" /\ last.cause = "limit") =>
          /\ last.read = StopsAt(last.len, 0)
          /\ last.read > max_file_size
          /\ last.read - chunk_size <= max_file_size
    /\ last.op = "upload" => last.read <= StopsAt(last.len, 0)

\* a stream of three chunks was aborted after the second, with the third
\* never read
C25_Witness ==
    /\ last.op = "upload"
    /\ last.cause = "limit"
    /\ last.len = 3 * chunk_size
    /\ last.read = 2 * chunk_size

\* the last call was an upload of a stream within the limit in which nothing
\* outside the writer failed
LastWithinLimit ==
    /\ last.op = "upload"
    /\ last.len <= max_file_size
    /\ last.cause \notin {"validation", "io", "db", "response", "cancel"}

\* worker w writes a stream of at most max_file_size bytes
WithinLimitInFlight(w) == Dest(w) # NoBlob /\ up[w].len <= max_file_size

\* the upload call of worker w has answered
WriterReturned(w) == up[w].pc = "idle"

\* C26: a stream of at most max_file_size bytes whose reads and writes do not
\* fail is not rejected by the writer: the writer terminates with the count of
\* the stream's length, the upload succeeds unless the commit or the response
\* fails, the destination holds as many bytes as the stream and the recorded
\* size is the stream's length; while it is written the destination, once
\* opened, holds the bytes read so far, less the chunk the writer holds
C26_StreamWithinLimitIsStored ==
    /\ [](LastWithinLimit =>
            /\ last.status = 200
            /\ last.read = last.len
            /\ last.stored \in DOMAIN blobs
            /\ blobs[last.stored] = last.len
            /\ Committed(last.stored)
            /\ RecordAt(last.stored).file_size = last.len)
    /\ [](\A w \in Workers :
            (up[w].pc \in {"saving", "closing"} /\ up[w].len <= max_file_size) =>
                /\ Dest(w) \in DOMAIN blobs
                /\ blobs[Dest(w)] = up[w].pos - up[w].chunk
                /\ up[w].pos <= up[w].len)
    /\ \A w \in Workers : WithinLimitInFlight(w) ~> WriterReturned(w)

\* a stream of exactly max_file_size bytes was stored after an empty stream
C26_Witness ==
    /\ LastWithinLimit
    /\ last.status = 200
    /\ last.len = max_file_size
    /\ Len(records) = 2
    /\ records[1].file_size = 0
    /\ records[1].stored_filename \in DOMAIN blobs
    /\ blobs[records[1].stored_filename] = 0

----------------------------------------------------------------------------
(* Claims about the archive and its release (SpecLoss, SpecExport, Spec) *)

\* the last call was a download that answered with an archive still on disk
LastArchive == LastExport /\ last.status = 200 /\ last.path \in DOMAIN temp

\* the entries of an archive under audio_files/
AudioEntriesOf(entries) == SelectSeq(entries, LAMBDA e : e.dir = "audio_files")

\* C22: the archive of a successful download has one entry under audio_files/
\* for each present blob, records of the same original name included: the
\* entries are read from pairwise distinct blobs, each the blob of a record of
\* the owner under that record's original name, and there are as many as
\* blobs were present
C22_SameNameEntriesAllKept ==
    LastArchive =>
        LET audio == AudioEntriesOf(temp[last.path])
        IN  /\ Len(audio) = last.npresent
            /\ \A i, j \in 1..Len(audio) : i # j => audio[i].src # audio[j].src
            /\ \A i \in 1..Len(audio) :
                  \E r \in Range(records) :
                      /\ r.user_id = last.owner
                      /\ r.stored_filename = audio[i].src
                      /\ r.original_filename = audio[i].name

\* two records of the same original name, both blobs present, give two
\* entries of the same name
C22_Witness ==
    /\ LastArchive
    /\ last.npresent = 2
    /\ Len(AudioEntriesOf(temp[last.path])) = 2
    /\ AudioEntriesOf(temp[last.path])[1].name = AudioEntriesOf(temp[last.path])[2].name
    /\ AudioEntriesOf(temp[last.path])[1].src # AudioEntriesOf(temp[last.path])[2].src

\* the metadata.json a reader of the archive gets: of the entries of that
\* name, the one added last
EffectiveManifest(entries) ==
    LET found == SelectSeq(entries, LAMBDA e : e.dir = "" /\ e.name = "metadata.json")
    IN  found[Len(found)].doc

\* the files element the manifest owes to a record
ManifestElement(r) ==
    [id |-> r.id, user_id |-> r.user_id, original_filename |-> r.original_filename,
     file_size |-> r.file_size, mime_type |-> r.mime_type, tags |-> r.tags,
     additional_info |-> r.additional_info, upload_timestamp |-> r.upload_timestamp,
     stored_filename |-> r.stored_filename]

\* the owner's records in fetch order
RecordsOf(owner) == SelectSeq(records, LAMBDA r : r.user_id = owner)

\* C23: the manifest of the archive a download returns carries the requesting
\* owner, the time of that download, and one files element per record of the
\* owner, blob present or not, in fetch order, each with the record's id,
\* owner, original name, size, media type, tags, additional info, upload time
\* and stored name
C23_ManifestListsEveryRecord ==
    LastArchive =>
        LET doc == EffectiveManifest(temp[last.path])
        IN  /\ doc.user_id = last.owner
            /\ doc.export_timestamp = utcnow("export", last.path[2])
            /\ doc.total_files = last.nfiles
            /\ Len(doc.files) = Len(RecordsOf(last.owner))
            /\ \A i \in 1..Len(doc.files) :
                  doc.files[i] = ManifestElement(RecordsOf(last.owner)[i])

\* a download over two records of the owner, one with additional info and
\* one whose blob is missing
C23_Witness ==
    /\ LastArchive
    /\ last.nfiles = 2
    /\ last.npresent = 1
    /\ \E i \in 1..2 : EffectiveManifest(temp[last.path]).files[i].additional_info = <<"info", LiveText>>
    /\ \E i \in 1..2 : EffectiveManifest(temp[last.path]).files[i].additional_info = None

\* an archive whose response is pending is on disk and complete: the entry
\* added last is the manifest of the endpoint
PendingArchivesComplete ==
    \A zip_path \in DOMAIN sched :
        /\ zip_path \in DOMAIN temp
        /\ temp[zip_path][Len(temp[zip_path])].name = "metadata.json"
        /\ temp[zip_path][Len(temp[zip_path])].doc.export_timestamp = utcnow("export", zip_path[2])

\* an archive leaves the temp directory only by its release, run after the
\* response was sent, and is not rewritten while it is there
ArchiveKeptUntilRelease ==
    \A zip_path \in DOMAIN temp :
        IF zip_path \in DOMAIN temp'
        THEN temp'[zip_path] = temp[zip_path]
        ELSE zip_path \in DOMAIN sched /\ sched[zip_path] = "sent"

\* C24: the archive of a successful download stays at the returned location,
\* complete and unchanged, from the return of the call until its release
\* runs, and the release runs only after the response was sent
C24_ArtifactKeptUntilRelease ==
    /\ []PendingArchivesComplete
    /\ [][ArchiveKeptUntilRelease]_vars

\* the response of a download was sent and its archive is still on disk
C24_Witness ==
    \E zip_path \in DOMAIN sched : sched[zip_path] = "sent" /\ zip_path \in DOMAIN temp

----------------------------------------------------------------------------
(* Claims about isolation, frame and release (SpecOwners, Spec) *)

\* C27: a list returns only records of the requesting owner, and the archive
\* of a download holds only blobs of records of the requesting owner and
\* manifests that list only such records
C27_OwnerIsolation ==
    /\ last.op = "list" =>
          \A i \in 1..Len(last.files) : last.files[i].user_id = last.owner
    /\ LastArchive =>
          \A i \in 1..Len(temp[last.path]) :
              LET e == temp[last.path][i]
              IN  IF e.dir = "audio_files"
                  THEN /\ \E r \in Range(records) : r.stored_filename = e.src
                       /\ \A r \in Range(records) :
                             r.stored_filename = e.src => r.user_id = last.owner
                  ELSE \A k \in 1..Len(e.doc.files) : e.doc.files[k].user_id = last.owner

\* a download for one owner while the other owner has a record and its blob
C27_Witness ==
    /\ LastArchive
    /\ AudioCount(temp[last.path]) = 1
    /\ \E r \in Range(records) :
          r.user_id # last.owner /\ r.stored_filename \in DOMAIN blobs

\* this step belongs to no upload: it is a list call, a download call, or the
\* delivery or release of a download
ReadStep == up' = up /\ nUp' = nUp

\* C28: a list or a download changes no record and no blob, and the only file
\* a download creates is its own archive in the temp directory
C28_ReadsChangeNothingButOwnArtifact ==
    [][ReadStep =>
          /\ records' = records
          /\ blobs' = blobs
          /\ tmpmeta' = tmpmeta
          /\ DOMAIN temp' \ DOMAIN temp \subseteq {uuid4("audio_export", nExp')}]_vars

\* C29: the release that runs after the response of a successful download
\* was delivered deletes the archive: when the release of a delivered
\* response is over, the archive is not in the temp directory
C29_ArtifactsEventuallyReleased ==
    [][\A zip_path \in DOMAIN sched :
          (sched[zip_path] = "sent" /\ zip_path \notin DOMAIN sched')
              => zip_path \notin DOMAIN temp']_vars

\* C30: no temporary manifest file written by a download call remains once
\* the call has returned or failed
C30_TempManifestRemoved ==
    \A call \in 1..nExp : uuid4("audio_export", call) \notin tmpmeta

====
